---------------------------- MODULE Spec2Model ----------------------------
(***************************************************************************)
(* The TextArea of src/renderer/input.rs as a state machine: the buffer    *)
(* `text` (Vec<String>), the Cursor (row, column, x_offset) and the stored *)
(* max_line_length, driven by the key events of input_special and the      *)
(* character events of input_char.                                         *)
(*                                                                         *)
(* A String is modelled as the sequence of its code points.  Byte offsets  *)
(* (String::len, grapheme_indices, remove, split_off, insert) are computed *)
(* from the UTF-8 width of every code point, glyph positions from the      *)
(* advance of every glyph: the layout produces one glyph per code point.   *)
(* Rows and columns are 0-based as in the code; TLA+ sequences are         *)
(* 1-based, so line `row` of the code is text[row + 1].                    *)
(*                                                                         *)
(* The CodeView of src/renderer/code_view.rs is a second state machine     *)
(* (code_view, SpecCodeView): its buffer, cursor_row, cursor_column,       *)
(* cursor_x_offset and scroll_offset, driven by the keys of input and by   *)
(* scroll.  SpecNew applies the two constructors to a source string.       *)
(***************************************************************************)
EXTENDS Integers, Sequences, FiniteSets, TLC

VARIABLES text, cursor, max_line_length, aborted, last, prev, prev2,
          args, code_view, cv_aborted, cv_last, cv_prev

\* the TextArea and its history
ta_vars == <<text, cursor, max_line_length, aborted, last, prev, prev2>>

\* the CodeView and its history
cv_vars == <<code_view, cv_aborted, cv_last, cv_prev>>

vars == <<ta_vars, cv_vars, args>>

(***************************************************************************)
(* Bounds of the model.                                                    *)
(***************************************************************************)
\* longest source string handed to TextArea::_new
MaxSrcLen == 3
\* InsertLineBreak is not offered once the buffer has this many lines
MaxLines == 3
\* InsertChar is not offered once the buffer holds this many code points
MaxChars == 3

(***************************************************************************)
(* Characters.  "a" is U+0061 (1 byte in UTF-8), "U00E9" is the            *)
(* precomposed e-acute (2 bytes, a grapheme cluster of its own), "U0301"   *)
(* is the combining acute accent (2 bytes, Grapheme_Extend: it joins the   *)
(* cluster of the code point before it).  None of them is a control        *)
(* character: the layout gives each of them a glyph.                       *)
(***************************************************************************)
Chars == {"a", "U00E9", "U0301"}

LF == "U000A"

Backspace == "U007F"

Enter == "U000D"

utf8_len(ch) == IF ch = "a" THEN 1 ELSE 2

is_extend(ch) == ch = "U0301"

\* Option<T>: None is the empty sequence, Some(x) the sequence <<x>>
None == <<>>

Some(x) == <<x>>

unwrap_or(o, d) == IF o = None THEN d ELSE o[1]

(***************************************************************************)
(* String operations, on byte offsets as in Rust.                          *)
(***************************************************************************)
RECURSIVE ByteOffset(_, _)
\* the byte offset at which code point number i (0-based) of s starts
ByteOffset(s, i) == IF i = 0 THEN 0 ELSE ByteOffset(s, i - 1) + utf8_len(s[i])

\* String::len: the length in bytes
len(s) == ByteOffset(s, Len(s))

\* the number of code points before byte offset b (b a char boundary)
CharIndexAt(s, b) == CHOOSE i \in 0..Len(s) : ByteOffset(s, i) = b

\* the code point numbers (1-based) at which a grapheme cluster starts
GraphemeStarts(s) ==
  SelectSeq([i \in 1..Len(s) |-> i], LAMBDA i : i = 1 \/ ~is_extend(s[i]))

\* str::grapheme_indices(true), kept to the byte offsets of the clusters
grapheme_indices(s) ==
  LET starts == GraphemeStarts(s)
  IN  [k \in 1..Len(starts) |-> ByteOffset(s, starts[k] - 1)]

\* the number of grapheme clusters of s
GraphemeCount(s) == Len(GraphemeStarts(s))

\* Iterator::nth
nth(seq, n) == IF n < Len(seq) THEN Some(seq[n + 1]) ELSE None

\* String::remove(idx): removes the one code point that starts at byte idx
remove(s, idx) ==
  LET i == CharIndexAt(s, idx)
  IN  SubSeq(s, 1, i) \o SubSeq(s, i + 2, Len(s))

\* String::split_off(idx): <<what stays in s, what is returned>>
split_off(s, idx) ==
  LET i == CharIndexAt(s, idx)
  IN  <<SubSeq(s, 1, i), SubSeq(s, i + 1, Len(s))>>

\* String::insert(idx, ch)
insert(s, idx, ch) ==
  LET i == CharIndexAt(s, idx)
  IN  SubSeq(s, 1, i) \o <<ch>> \o SubSeq(s, i + 1, Len(s))

\* Vec::remove(index)
vec_remove(v, index) == SubSeq(v, 1, index) \o SubSeq(v, index + 2, Len(v))

\* Vec::insert(index, element)
vec_insert(v, index, e) ==
  SubSeq(v, 1, index) \o <<e>> \o SubSeq(v, index + 1, Len(v))

(***************************************************************************)
(* Layout: calculate_glyphs gives one glyph per code point, glyph i at the *)
(* sum of the advances before it (the screen position is 0 for TextArea).  *)
(***************************************************************************)
h_advance(ch) == IF ch = "a" THEN 2 ELSE IF ch = "U00E9" THEN 3 ELSE 1

glyph_bounds_width(ch) == h_advance(ch) + 1

RECURSIVE glyph_position_x(_, _)
\* section_glyph.glyph.position.x of glyph number i (0-based) of the line
glyph_position_x(line, i) ==
  IF i = 0 THEN 0 ELSE glyph_position_x(line, i - 1) + h_advance(line[i])

line_length(line) ==
  IF Len(line) # 0
  THEN glyph_position_x(line, Len(line) - 1) + glyph_bounds_width(line[Len(line)])
  ELSE 0

RECURSIVE max_width_from(_, _, _)
max_width_from(lines, i, max_line_width) ==
  IF i > Len(lines) THEN max_line_width
  ELSE LET width == line_length(lines[i])
       IN  max_width_from(lines, i + 1,
                          IF width > max_line_width THEN width ELSE max_line_width)

MaxLineLength(lines) == max_width_from(lines, 1, 0)

cursor_x_position(row, column, txt) ==
  LET line == txt[row + 1]
  IN  IF column < Len(line) THEN Some(glyph_position_x(line, column))
      ELSE IF column # 0
           THEN IF column - 1 < Len(line)
                THEN Some(glyph_position_x(line, column - 1)
                          + glyph_bounds_width(line[column]))
                ELSE None
           ELSE None

(***************************************************************************)
(* The result of a handler: the buffer and the cursor it leaves, or a      *)
(* panic (a failed unwrap, an index out of range, a usize underflow).      *)
(***************************************************************************)
Ok(txt, cur) == [text |-> txt, cursor |-> cur, panicked |-> FALSE]

Panic(txt, cur) == [text |-> txt, cursor |-> cur, panicked |-> TRUE]

\* the end-of-line fallback shared by the Up, Down and Left arms
EndOfLine(row, txt, cur) ==
  LET column == len(txt[row + 1])
  IN  [cur EXCEPT !.row = row,
                  !.column = column,
                  !.x_offset = unwrap_or(cursor_x_position(row, column, txt), 0)]

\* Faulty variant of UpArm: on the first row it does nothing at all.
UpArm_NoOpOnFirstRow(txt, cur) ==
  IF cur.row # 0
  THEN LET row == cur.row - 1
           offset == cursor_x_position(row, cur.column, txt)
       IN  IF offset # None
           THEN Ok(txt, [cur EXCEPT !.row = row, !.x_offset = offset[1]])
           ELSE Ok(txt, EndOfLine(row, txt, cur))
  ELSE Ok(txt, cur)

UpArm(txt, cur) ==
  IF cur.row # 0
  THEN LET row == cur.row - 1
           offset == cursor_x_position(row, cur.column, txt)
       IN  IF offset # None
           THEN Ok(txt, [cur EXCEPT !.row = row, !.x_offset = offset[1]])
           ELSE Ok(txt, EndOfLine(row, txt, cur))
  ELSE Ok(txt, [cur EXCEPT !.x_offset = 0, !.column = 0])

LeftArm(txt, cur) ==
  IF cur.column # 0
  THEN LET column == cur.column - 1
           offset == cursor_x_position(cur.row, column, txt)
       IN  IF offset = None
           THEN Panic(txt, [cur EXCEPT !.column = column])
           ELSE Ok(txt, [cur EXCEPT !.column = column, !.x_offset = offset[1]])
  ELSE IF cur.row # 0
       THEN Ok(txt, EndOfLine(cur.row - 1, txt, cur))
       ELSE Ok(txt, cur)

\* text.len() - 1 underflows on an empty Vec: a panic with overflow checks,
\* and without them usize::MAX, after which text[cursor.row] is out of range
DownArm(txt, cur) ==
  IF Len(txt) = 0 THEN Panic(txt, cur)
  ELSE IF cur.row # Len(txt) - 1
       THEN LET row == cur.row + 1
                offset == cursor_x_position(row, cur.column, txt)
            IN  IF offset # None
                THEN Ok(txt, [cur EXCEPT !.row = row, !.x_offset = offset[1]])
                ELSE Ok(txt, EndOfLine(row, txt, cur))
       ELSE Ok(txt, EndOfLine(cur.row, txt, cur))

\* Faulty variant of RightArm: it does not test for the last row, and steps
\* to a next row from the end of any line.
RightArm_NoLastRowCheck(txt, cur) ==
  IF Len(txt) = 0 THEN Panic(txt, cur)
  ELSE LET offset == cursor_x_position(cur.row, cur.column + 1, txt)
       IN  IF offset # None
           THEN Ok(txt, [cur EXCEPT !.column = cur.column + 1,
                                    !.x_offset = offset[1]])
           ELSE Ok(txt, [cur EXCEPT !.x_offset = 0, !.column = 0,
                                    !.row = cur.row + 1])

\* Faulty variant of RightArm: it takes the position of the column the
\* cursor is leaving, not of the column it moves to.
RightArm_PositionOfOldColumn(txt, cur) ==
  IF Len(txt) = 0 THEN Panic(txt, cur)
  ELSE LET offset == cursor_x_position(cur.row, cur.column + 1, txt)
           stale == cursor_x_position(cur.row, cur.column, txt)
       IN  IF cur.row # Len(txt) - 1
           THEN IF offset # None
                THEN Ok(txt, [cur EXCEPT !.column = cur.column + 1,
                                         !.x_offset = unwrap_or(stale, 0)])
                ELSE Ok(txt, [cur EXCEPT !.x_offset = 0, !.column = 0,
                                         !.row = cur.row + 1])
           ELSE IF offset # None
                THEN Ok(txt, [cur EXCEPT !.column = cur.column + 1,
                                         !.x_offset = unwrap_or(stale, 0)])
                ELSE Ok(txt, cur)

RightArm(txt, cur) ==
  IF Len(txt) = 0 THEN Panic(txt, cur)
  ELSE LET offset == cursor_x_position(cur.row, cur.column + 1, txt)
       IN  IF cur.row # Len(txt) - 1
           THEN IF offset # None
                THEN Ok(txt, [cur EXCEPT !.column = cur.column + 1,
                                         !.x_offset = offset[1]])
                ELSE Ok(txt, [cur EXCEPT !.x_offset = 0, !.column = 0,
                                         !.row = cur.row + 1])
           ELSE IF offset # None
                THEN Ok(txt, [cur EXCEPT !.column = cur.column + 1,
                                         !.x_offset = offset[1]])
                ELSE Ok(txt, cur)

\* Faulty variant of input_special: a key it does not know sends the cursor
\* to the start of the line.
input_special_OtherKeyMovesHome(key, txt, cur) ==
  CASE key = "Up" -> UpArm(txt, cur)
    [] key = "Left" -> LeftArm(txt, cur)
    [] key = "Down" -> DownArm(txt, cur)
    [] key = "Right" -> RightArm(txt, cur)
    [] OTHER -> Ok(txt, [cur EXCEPT !.column = 0, !.x_offset = 0])

input_special(key, txt, cur) ==
  CASE key = "Up" -> UpArm(txt, cur)
    [] key = "Left" -> LeftArm(txt, cur)
    [] key = "Down" -> DownArm(txt, cur)
    [] key = "Right" -> RightArm(txt, cur)
    [] OTHER -> Ok(txt, cur)

\* Backspace with column != 0: the code point at the start of grapheme
\* cluster column - 1 is removed, then the cursor moves Left
BackspaceDelete(txt, cur) ==
  LET index == nth(grapheme_indices(txt[cur.row + 1]), cur.column - 1)
  IN  IF index = None
      THEN Panic(txt, cur)
      ELSE input_special("Left",
             [txt EXCEPT ![cur.row + 1] = remove(@, index[1])], cur)

\* Backspace with column = 0 and row != 0: the line is removed and appended
\* to the line before it, the cursor put one past that line's length in
\* bytes and then moved Left
BackspaceMerge(txt, cur) ==
  LET removed == txt[cur.row + 1]
      shorter == vec_remove(txt, cur.row)
      row == cur.row - 1
      column == len(shorter[row + 1]) + 1
      merged == [shorter EXCEPT ![row + 1] = @ \o removed]
  IN  input_special("Left", merged, [cur EXCEPT !.row = row, !.column = column])

\* Faulty variant of BackspaceArm: at (0, 0) it removes the line the cursor
\* is on.
BackspaceArm_RemovesFirstLine(txt, cur) ==
  IF cur.column # 0 THEN BackspaceDelete(txt, cur)
  ELSE IF cur.row # 0 THEN BackspaceMerge(txt, cur)
       ELSE IF Len(txt) # 0 THEN Ok(vec_remove(txt, cur.row), cur)
            ELSE Ok(txt, cur)

BackspaceArm(txt, cur) ==
  IF cur.column # 0 THEN BackspaceDelete(txt, cur)
  ELSE IF cur.row # 0 THEN BackspaceMerge(txt, cur)
       ELSE Ok(txt, cur)

\* the byte index of grapheme cluster cur.column, or the end of the line
InsertionIndex(txt, cur) ==
  unwrap_or(nth(grapheme_indices(txt[cur.row + 1]), cur.column),
            len(txt[cur.row + 1]))

EnterArm(txt, cur) ==
  IF cur.row >= Len(txt) THEN Panic(txt, cur)
  ELSE LET parts == split_off(txt[cur.row + 1], InsertionIndex(txt, cur))
           kept == [txt EXCEPT ![cur.row + 1] = parts[1]]
       IN  input_special("Right", vec_insert(kept, cur.row + 1, parts[2]), cur)

\* Faulty variant of InsertArm: the character always goes to the end of the
\* line.
InsertArm_Appends(ch, txt, cur) ==
  IF cur.row >= Len(txt) THEN Panic(txt, cur)
  ELSE input_special("Right",
         [txt EXCEPT ![cur.row + 1] = Append(@, ch)], cur)

InsertArm(ch, txt, cur) ==
  IF cur.row >= Len(txt) THEN Panic(txt, cur)
  ELSE input_special("Right",
         [txt EXCEPT ![cur.row + 1] = insert(@, InsertionIndex(txt, cur), ch)],
         cur)

\* Faulty variant of input_char: the width it returns is measured before the
\* edit.
input_char_MeasuresBeforeEdit(ch, txt, cur) ==
  LET r == CASE ch = Backspace -> BackspaceArm(txt, cur)
             [] ch = Enter -> EnterArm(txt, cur)
             [] OTHER -> InsertArm(ch, txt, cur)
  IN  [text |-> r.text, cursor |-> r.cursor, panicked |-> r.panicked,
       ret |-> MaxLineLength(txt)]

input_char(ch, txt, cur) ==
  LET r == CASE ch = Backspace -> BackspaceArm(txt, cur)
             [] ch = Enter -> EnterArm(txt, cur)
             [] OTHER -> InsertArm(ch, txt, cur)
  IN  [text |-> r.text, cursor |-> r.cursor, panicked |-> r.panicked,
       ret |-> MaxLineLength(r.text)]

(***************************************************************************)
(* Construction: TextArea::_new.                                           *)
(***************************************************************************)
RECURSIVE split_lf(_)
\* the pieces of src between line feeds (always at least one piece)
split_lf(src) ==
  IF \E i \in 1..Len(src) : src[i] = LF
  THEN LET i == CHOOSE i \in 1..Len(src) :
                  src[i] = LF /\ \A j \in 1..(i - 1) : src[j] # LF
       IN  <<SubSeq(src, 1, i - 1)>> \o split_lf(SubSeq(src, i + 1, Len(src)))
  ELSE <<src>>

\* str::lines(): the pieces, without the empty piece after a final line feed
lines(src) ==
  LET pieces == split_lf(src)
  IN  IF pieces[Len(pieces)] = <<>> THEN SubSeq(pieces, 1, Len(pieces) - 1)
      ELSE pieces

ends_with_lf(src) == Len(src) # 0 /\ src[Len(src)] = LF

\* split_text of TextArea::_new
new_split_text(src, multiline) ==
  IF multiline /\ ends_with_lf(src) THEN lines(src) \o <<<<>>>> ELSE lines(src)

\* assert_eq!(split_text.len(), 1) of a single-line TextArea
new_succeeds(src, multiline) ==
  multiline \/ Len(new_split_text(src, multiline)) = 1

Sources == UNION {[1..n -> Chars \cup {LF}] : n \in 0..MaxSrcLen}

(***************************************************************************)
(* The state machine.  last is the event handled last, prev the buffer and *)
(* cursor it was handled in; prev2 holds the state before the event before *)
(* it when the two events are one of TrackedPairs, and is empty otherwise. *)
(* A handler that panics ends the program: aborted is set, the rest keeps  *)
(* the state the event arrived in, and no further event is handled.        *)
(* args holds the arguments the constructor was called with until the      *)
(* first event is handled.  The CodeView does not exist in this machine.   *)
(***************************************************************************)
TrackedPairs == {<<Enter, Backspace>>, <<"Left", "Right">>, <<"Down", "Up">>}

Snapshot == [text |-> text, cursor |-> cursor]

NoArgs == <<>>

Record(event) ==
  /\ last' = event
  /\ prev' = Snapshot
  /\ prev2' = IF <<last, event>> \in TrackedPairs THEN <<prev>> ELSE <<>>
  /\ args' = NoArgs

\* no CodeView has been constructed
NoCodeView ==
  /\ code_view = [text |-> <<>>, cursor_row |-> 0, cursor_column |-> 0,
                  cursor_x_offset |-> 0, scroll_offset |-> [x |-> 0, y |-> 0],
                  line_numbers_width |-> 0]
  /\ cv_aborted = FALSE
  /\ cv_last = "none"
  /\ cv_prev = code_view

Init ==
  \E src \in Sources, multiline \in BOOLEAN :
    /\ new_succeeds(src, multiline)
    /\ text = new_split_text(src, multiline)
    /\ cursor = [row |-> 0, column |-> 0, x_offset |-> 0]
    /\ max_line_length = MaxLineLength(text)
    /\ aborted = FALSE
    /\ last = "new"
    /\ prev = [text |-> text, cursor |-> cursor]
    /\ prev2 = <<>>
    /\ args = [source |-> src, multiline |-> multiline]
    /\ NoCodeView

\* TextArea::input_special
TextArea_input_special(key) ==
  /\ ~aborted
  /\ LET r == input_special(key, text, cursor)
     IN  IF r.panicked
         THEN aborted' = TRUE /\ UNCHANGED <<text, cursor>>
         ELSE text' = r.text /\ cursor' = r.cursor /\ UNCHANGED aborted
  /\ UNCHANGED max_line_length
  /\ Record(key)
  /\ UNCHANGED cv_vars

\* TextArea::input_char
TextArea_input_char(ch) ==
  /\ ~aborted
  /\ LET r == input_char(ch, text, cursor)
     IN  IF r.panicked
         THEN aborted' = TRUE /\ UNCHANGED <<text, cursor, max_line_length>>
         ELSE /\ text' = r.text
              /\ cursor' = r.cursor
              /\ max_line_length' = r.ret
              /\ UNCHANGED aborted
  /\ Record(ch)
  /\ UNCHANGED cv_vars

RECURSIVE CodePointsFrom(_, _)
CodePointsFrom(txt, i) ==
  IF i > Len(txt) THEN 0 ELSE Len(txt[i]) + CodePointsFrom(txt, i + 1)

\* the number of code points held by the buffer
TotalChars(txt) == CodePointsFrom(txt, 1)

MoveUp == TextArea_input_special("Up")

MoveDown == TextArea_input_special("Down")

MoveLeft == TextArea_input_special("Left")

MoveRight == TextArea_input_special("Right")

OtherKey == TextArea_input_special("Other")

PressBackspace == TextArea_input_char(Backspace)

InsertLineBreak == Len(text) < MaxLines /\ TextArea_input_char(Enter)

InsertChar == \E ch \in Chars : TotalChars(text) < MaxChars /\ TextArea_input_char(ch)

Next ==
  \/ MoveUp
  \/ MoveDown
  \/ MoveLeft
  \/ MoveRight
  \/ OtherKey
  \/ PressBackspace
  \/ InsertLineBreak
  \/ InsertChar

Spec == Init /\ [][Next]_vars

(***************************************************************************)
(* CodeView.  Columns count code points (chars().nth); the width of a      *)
(* character comes from font_width_map, which holds every character of     *)
(* the buffer and the ten digits.  Widths, offsets and font_height are     *)
(* whole numbers here.  The rectangles drawn from this state (rect,        *)
(* cursor) and glyph_text are left out.                                    *)
(***************************************************************************)
\* font_height handed to CodeView::new
FontHeight == 2

\* the number of rows scroll keeps below the top: the 3 of line_count - 3
VisibleRows == 3

Min(a, b) == IF a < b THEN a ELSE b

Max(a, b) == IF a > b THEN a ELSE b

Digits == <<"0", "1", "2", "3", "4", "5", "6", "7", "8", "9">>

RECURSIVE to_string(_)
\* usize::to_string
to_string(i) ==
  IF i < 10 THEN <<Digits[i + 1]>>
  ELSE Append(to_string(i \div 10), Digits[(i % 10) + 1])

font_width_map(c) ==
  IF \E d \in 1..10 : Digits[d] = c THEN 2 ELSE h_advance(c)

RECURSIVE fold_width(_, _)
\* chars().fold(0.0, |acc, c| acc + font_width_map.get(&c).unwrap()) over
\* the first n characters of line
fold_width(line, n) ==
  IF n = 0 THEN 0 ELSE fold_width(line, n - 1) + font_width_map(line[n])

RECURSIVE max_fold_width(_, _)
\* the largest fold_width over the first n of the strings, 0.0 at least
max_fold_width(strings, n) ==
  IF n = 0 THEN 0
  ELSE Max(max_fold_width(strings, n - 1),
           fold_width(strings[n], Len(strings[n])))

\* split_text of CodeView::new
CodeView_split_text(src) ==
  IF ends_with_lf(src) THEN lines(src) \o <<<<>>>> ELSE lines(src)

\* line_numbers_width of CodeView::new: the widest line number, from 0
new_line_numbers_width(split_text) ==
  max_fold_width([i \in 1..Len(split_text) |-> to_string(i - 1)],
                 Len(split_text))

CodeView_new(src) ==
  LET split_text == CodeView_split_text(src)
  IN  [text |-> split_text,
       cursor_row |-> 0, cursor_column |-> 0, cursor_x_offset |-> 0,
       scroll_offset |-> [x |-> 0, y |-> 0],
       line_numbers_width |-> new_line_numbers_width(split_text)]

\* the result of a CodeView handler: the CodeView it leaves, or a panic
CvOk(cv) == [cv |-> cv, panicked |-> FALSE]

CvPanic(cv) == [cv |-> cv, panicked |-> TRUE]

\* self.text[row] is within the Vec
in_range(cv, row) == row < Len(cv.text)

\* CodeView::get_char, for a row within the Vec
get_char(cv, row, column) == nth(cv.text[row + 1], column)

\* CodeView::get_char_width, for a row within the Vec
get_char_width(cv, row, column) ==
  LET c == get_char(cv, row, column)
  IN  IF c = None THEN None ELSE Some(font_width_map(c[1]))

\* the cursor at the end of line row: column the number of chars, x_offset
\* the sum of their widths
AtEndOfLine(cv, row) ==
  LET line == cv.text[row + 1]
  IN  [cv EXCEPT !.cursor_row = row,
                 !.cursor_column = Len(line),
                 !.cursor_x_offset = fold_width(line, Len(line))]

\* the cursor on line row, at the column it has if the line has a char
\* there and at the end of the line if not
AtColumnOrEnd(cv, row) ==
  IF get_char(cv, row, cv.cursor_column) # None
  THEN [cv EXCEPT !.cursor_row = row,
                  !.cursor_x_offset = fold_width(cv.text[row + 1],
                                                 cv.cursor_column)]
  ELSE AtEndOfLine(cv, row)

\* the closure handle_left of CodeView::input
handle_left(cv) ==
  IF cv.cursor_column # 0
  THEN LET column == cv.cursor_column - 1
       IN  IF ~in_range(cv, cv.cursor_row) THEN CvPanic(cv)
           ELSE LET width == get_char_width(cv, cv.cursor_row, column)
                IN  IF width = None THEN CvPanic(cv)
                    ELSE CvOk([cv EXCEPT !.cursor_column = column,
                                         !.cursor_x_offset = @ - width[1]])
  ELSE IF cv.cursor_row # 0
       THEN IF ~in_range(cv, cv.cursor_row - 1) THEN CvPanic(cv)
            ELSE CvOk(AtEndOfLine(cv, cv.cursor_row - 1))
       ELSE CvOk(cv)

CodeView_Up(cv) ==
  IF cv.cursor_row # 0
  THEN IF ~in_range(cv, cv.cursor_row - 1) THEN CvPanic(cv)
       ELSE CvOk(AtColumnOrEnd(cv, cv.cursor_row - 1))
  ELSE CvOk([cv EXCEPT !.cursor_x_offset = 0, !.cursor_column = 0])

CodeView_Down(cv) ==
  IF cv.cursor_row # Len(cv.text)
  THEN IF ~in_range(cv, cv.cursor_row + 1) THEN CvPanic(cv)
       ELSE CvOk(AtColumnOrEnd(cv, cv.cursor_row + 1))
  ELSE IF ~in_range(cv, cv.cursor_row) THEN CvPanic(cv)
       ELSE CvOk(AtEndOfLine(cv, cv.cursor_row))

CodeView_Right(cv) ==
  IF ~in_range(cv, cv.cursor_row) THEN CvPanic(cv)
  ELSE LET width == get_char_width(cv, cv.cursor_row, cv.cursor_column)
       IN  IF width # None
           THEN CvOk([cv EXCEPT !.cursor_x_offset = @ + width[1],
                                !.cursor_column = @ + 1])
           ELSE CvOk([cv EXCEPT !.cursor_x_offset = 0,
                                !.cursor_column = 0,
                                !.cursor_row = @ + 1])

\* str::is_char_boundary for idx < s.len()
is_char_boundary(s, idx) == \E i \in 0..Len(s) : ByteOffset(s, i) = idx

\* the Back arm: handle_left, then String::remove at byte cursor_column
CodeView_Back(cv) ==
  LET left == handle_left(cv)
  IN  IF left.panicked THEN CvPanic(cv)
      ELSE LET row == left.cv.cursor_row
               column == left.cv.cursor_column
           IN  IF ~in_range(left.cv, row) THEN CvPanic(cv)
               ELSE LET line == left.cv.text[row + 1]
                    IN  IF column >= len(line) \/ ~is_char_boundary(line, column)
                        THEN CvPanic(cv)
                        ELSE CvOk([left.cv EXCEPT
                                     !.text[row + 1] = remove(line, column)])

CodeView_input(key, cv) ==
  CASE key = "Up" -> CodeView_Up(cv)
    [] key = "Left" -> handle_left(cv)
    [] key = "Down" -> CodeView_Down(cv)
    [] key = "Right" -> CodeView_Right(cv)
    [] key = "Back" -> CodeView_Back(cv)
    [] OTHER -> CvOk(cv)

\* CodeView::scroll; line_count is an i32, so line_count - 3 may be negative
CodeView_scroll(offset, size_width, cv) ==
  LET line_count == Len(cv.text)
      max_line_width == max_fold_width(cv.text, Len(cv.text))
  IN  [cv EXCEPT
         !.scroll_offset.x =
            Min(Max(@ - offset.x,
                    (cv.line_numbers_width + 20) + (size_width - max_line_width)),
                0),
         !.scroll_offset.y =
            Max(Min(@ + offset.y, 0),
                -((line_count - VisibleRows) * FontHeight))]

(***************************************************************************)
(* The CodeView state machine.  cv_last is the event handled last, cv_prev *)
(* the CodeView it was handled in.  The TextArea does not exist in it.     *)
(***************************************************************************)
\* the offsets of a scroll event, in x and in y
ScrollDeltas == {-1, 0, 1}

\* size.width of a scroll event
ScreenWidths == {0, 100}

\* no TextArea has been constructed
NoTextArea ==
  /\ text = <<>>
  /\ cursor = [row |-> 0, column |-> 0, x_offset |-> 0]
  /\ max_line_length = 0
  /\ aborted = FALSE
  /\ last = "none"
  /\ prev = [text |-> text, cursor |-> cursor]
  /\ prev2 = <<>>

InitCodeView ==
  \E src \in Sources :
    /\ code_view = CodeView_new(src)
    /\ cv_aborted = FALSE
    /\ cv_last = "new"
    /\ cv_prev = code_view
    /\ args = [source |-> src]
    /\ NoTextArea

CvRecord(event) ==
  /\ cv_last' = event
  /\ cv_prev' = code_view
  /\ args' = NoArgs

\* CodeView::input
CodeView_input_key(key) ==
  /\ ~cv_aborted
  /\ LET r == CodeView_input(key, code_view)
     IN  IF r.panicked
         THEN cv_aborted' = TRUE /\ UNCHANGED code_view
         ELSE code_view' = r.cv /\ UNCHANGED cv_aborted
  /\ CvRecord(key)
  /\ UNCHANGED ta_vars

CursorUp == CodeView_input_key("Up")

CursorDown == CodeView_input_key("Down")

CursorLeft == CodeView_input_key("Left")

CursorRight == CodeView_input_key("Right")

Back == CodeView_input_key("Back")

AnotherKey == CodeView_input_key("Other")

\* RenderElement::scroll of CodeView
Scroll ==
  \E dx \in ScrollDeltas, dy \in ScrollDeltas, size_width \in ScreenWidths :
    /\ ~cv_aborted
    /\ code_view' = CodeView_scroll([x |-> dx, y |-> dy], size_width, code_view)
    /\ UNCHANGED cv_aborted
    /\ CvRecord("scroll")
    /\ UNCHANGED ta_vars

NextCodeView ==
  \/ CursorUp
  \/ CursorDown
  \/ CursorLeft
  \/ CursorRight
  \/ Back
  \/ AnotherKey
  \/ Scroll

SpecCodeView == InitCodeView /\ [][NextCodeView]_vars

(***************************************************************************)
(* Construction as a step: from nothing, one of the two constructors is    *)
(* called with a source string.                                            *)
(***************************************************************************)
InitNew == NoTextArea /\ NoCodeView /\ args = NoArgs

\* TextArea::_new
NewTextArea ==
  \E src \in Sources, multiline \in BOOLEAN :
    /\ last = "none" /\ cv_last = "none"
    /\ new_succeeds(src, multiline)
    /\ text' = new_split_text(src, multiline)
    /\ cursor' = [row |-> 0, column |-> 0, x_offset |-> 0]
    /\ max_line_length' = MaxLineLength(text')
    /\ last' = "new"
    /\ prev' = [text |-> text', cursor |-> cursor']
    /\ args' = [source |-> src, multiline |-> multiline]
    /\ UNCHANGED <<aborted, prev2, cv_vars>>

\* CodeView::new
NewCodeView ==
  \E src \in Sources :
    /\ last = "none" /\ cv_last = "none"
    /\ code_view' = CodeView_new(src)
    /\ cv_last' = "new"
    /\ cv_prev' = code_view'
    /\ args' = [source |-> src]
    /\ UNCHANGED <<cv_aborted, ta_vars>>

NextNew == NewTextArea \/ NewCodeView

SpecNew == InitNew /\ [][NextNew]_vars

(***************************************************************************)
(* What the claims speak of.                                               *)
(***************************************************************************)
Events == {"Up", "Down", "Left", "Right", Backspace, Enter} \cup Chars

\* the line the cursor of state st is on
LineOf(st) == st.text[st.cursor.row + 1]

\* at least one line, 0 <= row < line_count, 0 <= column <= length(line[row])
ValidState(st) ==
  /\ Len(st.text) >= 1
  /\ st.cursor.row >= 0
  /\ st.cursor.row < Len(st.text)
  /\ st.cursor.column >= 0
  /\ st.cursor.column <= GraphemeCount(LineOf(st))

\* x_offset is the layout position of (row, column), 0 where there is none
ConsistentState(st) ==
  st.cursor.x_offset
    = unwrap_or(cursor_x_position(st.cursor.row, st.cursor.column, st.text), 0)

\* x_offset is the position the layout gives for (row, column)
PositionedState(st) ==
  cursor_x_position(st.cursor.row, st.cursor.column, st.text)
    = Some(st.cursor.x_offset)

\* the first n grapheme clusters of line s, and the rest of it
Prefix(s, n) ==
  IF n >= GraphemeCount(s) THEN s ELSE SubSeq(s, 1, GraphemeStarts(s)[n + 1] - 1)

Suffix(s, n) == SubSeq(s, Len(Prefix(s, n)) + 1, Len(s))

\* C1: every event handled in a state with at least one line and a cursor
\* inside the buffer (row < line_count, column <= grapheme count of the
\* line) completes: no panic.
C1_Totality == (last \in Events /\ ValidState(prev)) => ~aborted

\* C2: the cursor column never exceeds the number of grapheme clusters of
\* the line the cursor is on.
C2_ColumnInvariant ==
  Len(text) >= 1 => cursor.column <= GraphemeCount(LineOf(Snapshot))

\* C3: an event handled on a buffer with at least one line leaves at least
\* one line, and Backspace removes a line only when the cursor row was > 0.
C3_LineCount ==
  /\ Len(prev.text) >= 1 => Len(text) >= 1
  /\ (last = Backspace /\ Len(text) < Len(prev.text)) => prev.cursor.row > 0

\* a Backspace merge has reduced a two-line buffer to one line
C3_Witness ==
  last = Backspace /\ ~aborted /\ Len(prev.text) = 2 /\ Len(text) = 1

\* C4: over a buffer with at least one line, 0 <= cursor.row < line_count.
C4_RowInvariant ==
  Len(text) >= 1 => (cursor.row >= 0 /\ cursor.row < Len(text))

\* a Backspace merge on the last row has removed it, and a line break on the
\* last row has added one
C4_Witness ==
  \/ /\ last = Backspace /\ ~aborted
     /\ Len(text) < Len(prev.text)
     /\ prev.cursor.row = Len(prev.text) - 1
  \/ /\ last = Enter /\ ~aborted
     /\ prev.cursor.row = Len(prev.text) - 1
     /\ cursor.row = Len(text) - 1

\* C5: after every event x_offset is the layout position of the caret at
\* (row, column): cursor_x_position(row, column) where it yields one, and 0
\* where it yields none (an empty line in particular).
C5_XOffsetConsistent ==
  Len(text) >= 1 =>
    /\ ConsistentState(Snapshot)
    /\ LineOf(Snapshot) = <<>> => cursor.x_offset = 0

\* C6: Backspace at (row, 0), row > 0, removes line[row], appends it to
\* line[row-1], leaves the other lines as they were, and puts the cursor at
\* (row-1, length of the old line[row-1] in grapheme clusters).
C6_BackspaceMerge ==
  (last = Backspace /\ prev.cursor.column = 0 /\ prev.cursor.row > 0) =>
    LET row == prev.cursor.row
    IN  /\ ~aborted
        /\ Len(text) = Len(prev.text) - 1
        /\ text[row] = prev.text[row] \o prev.text[row + 1]
        /\ \A i \in 1..(row - 1) : text[i] = prev.text[i]
        /\ \A i \in (row + 1)..Len(text) : text[i] = prev.text[i + 1]
        /\ cursor.row = row - 1
        /\ cursor.column = GraphemeCount(prev.text[row])

\* C7: a line break at a valid cursor (row, column) keeps the first `column`
\* grapheme clusters in line[row], makes the rest the new line[row+1], leaves
\* the other lines as they were, and puts the cursor at (row+1, 0) with
\* x_offset 0.
C7_LineBreak ==
  (last = Enter /\ ValidState(prev)) =>
    LET row == prev.cursor.row
        column == prev.cursor.column
    IN  /\ ~aborted
        /\ Len(text) = Len(prev.text) + 1
        /\ text[row + 1] = Prefix(prev.text[row + 1], column)
        /\ text[row + 2] = Suffix(prev.text[row + 1], column)
        /\ \A i \in 1..row : text[i] = prev.text[i]
        /\ \A i \in (row + 3)..Len(text) : text[i] = prev.text[i - 1]
        /\ cursor = [row |-> row + 1, column |-> 0, x_offset |-> 0]

\* C8: a line break at a valid cursor followed at once by Backspace gives
\* back the lines and the cursor (row, column, x_offset) it started from.
C8_SplitMergeRoundTrip ==
  (last = Backspace /\ prev2 # <<>> /\ ValidState(prev2[1])) =>
    /\ ~aborted
    /\ text = prev2[1].text
    /\ cursor = prev2[1].cursor

\* C9: from a valid cursor with column > 0 whose x_offset is the layout
\* position of (row, column), Left completes, and Left followed at once by
\* Right gives back row, column, x_offset and the buffer.
C9_LeftRightIdentity ==
  /\ (/\ last = "Left" /\ ValidState(prev) /\ PositionedState(prev)
      /\ prev.cursor.column > 0) => ~aborted
  /\ (/\ last = "Right" /\ prev2 # <<>>
      /\ ValidState(prev2[1]) /\ PositionedState(prev2[1])
      /\ prev2[1].cursor.column > 0) =>
        /\ ~aborted
        /\ text = prev2[1].text
        /\ cursor = prev2[1].cursor

\* Left and then Right have run from an interior position of a row below
\* the first, on a line with a cluster of two code points
C9_Witness ==
  /\ last = "Right" /\ prev2 # <<>> /\ ~aborted
  /\ ValidState(prev2[1]) /\ PositionedState(prev2[1])
  /\ prev2[1].cursor.column > 0
  /\ prev2[1].cursor.row > 0
  /\ prev2[1].cursor.x_offset > 0
  /\ GraphemeCount(LineOf(prev2[1])) < Len(LineOf(prev2[1]))

C11_ExtremityNoOp ==
  /\ (/\ last = "Left" /\ Len(prev.text) >= 1
      /\ prev.cursor.row = 0 /\ prev.cursor.column = 0) =>
       (~aborted /\ Snapshot = prev)
  /\ (/\ last = "Right" /\ ValidState(prev)
      /\ prev.cursor.row = Len(prev.text) - 1
      /\ prev.cursor.column = GraphemeCount(LineOf(prev))) =>
       (~aborted /\ Snapshot = prev)

\* C12: when Up or Down changes the row, the new column is the smaller of
\* the old column and the length of the new line in grapheme clusters; and
\* Down from a line into a strictly shorter one followed at once by Up leaves
\* the column at the length of the shorter line.
C12_RaggedNavigation ==
  /\ (/\ last \in {"Up", "Down"} /\ ValidState(prev) /\ ~aborted
      /\ cursor.row # prev.cursor.row) =>
       cursor.column = Min(prev.cursor.column, GraphemeCount(LineOf(Snapshot)))
  /\ (/\ last = "Up" /\ prev2 # <<>> /\ ~aborted /\ ValidState(prev2[1])
      /\ prev.cursor.row = prev2[1].cursor.row + 1
      /\ GraphemeCount(LineOf(prev)) < prev2[1].cursor.column) =>
       /\ cursor.row = prev2[1].cursor.row
       /\ cursor.column = GraphemeCount(LineOf(prev))

\* C13: a character typed at a valid cursor (row, column) goes to grapheme
\* index column of line[row], the other lines stay, and the cursor stays on
\* the row at column + 1; typed at the end of the code points of a line it
\* is appended and the column is then the number of code points of the line
\* (the step from k - 1 to k characters typed into an empty line).
C13_InsertChar ==
  /\ (last \in Chars /\ ValidState(prev)) =>
       LET row == prev.cursor.row
           column == prev.cursor.column
       IN  /\ ~aborted
           /\ Len(text) = Len(prev.text)
           /\ text[row + 1] = Prefix(prev.text[row + 1], column) \o <<last>>
                                \o Suffix(prev.text[row + 1], column)
           /\ \A i \in 1..Len(text) : i # row + 1 => text[i] = prev.text[i]
           /\ cursor.row = row
           /\ cursor.column = column + 1
  /\ (/\ last \in Chars /\ Len(prev.text) >= 1
      /\ prev.cursor.column = Len(LineOf(prev))) =>
       /\ ~aborted
       /\ LineOf(Snapshot) = Append(LineOf(prev), last)
       /\ cursor.row = prev.cursor.row
       /\ cursor.column = Len(LineOf(Snapshot))

\* a character has been typed inside a line of a row that is not the last,
\* and a third character has been typed at the end of a line
C13_Witness ==
  /\ last \in Chars /\ ~aborted /\ ValidState(prev)
  /\ \/ /\ prev.cursor.row < Len(prev.text) - 1
        /\ prev.cursor.column > 0
        /\ prev.cursor.column < GraphemeCount(LineOf(prev))
     \/ /\ prev.cursor.column = Len(LineOf(prev))
        /\ cursor.column = 3

\* C15: Backspace at a valid cursor with column > 0 removes the whole
\* grapheme cluster column - 1 of the line: the clusters before it and after
\* it stay, and the grapheme count drops by one.
C15_BackspaceWholeCluster ==
  (/\ last = Backspace /\ ~aborted /\ ValidState(prev)
   /\ prev.cursor.column > 0) =>
    LET line == LineOf(prev)
        column == prev.cursor.column
    IN  /\ text[prev.cursor.row + 1]
             = Prefix(line, column - 1) \o Suffix(line, column)
        /\ GraphemeCount(text[prev.cursor.row + 1]) = GraphemeCount(line) - 1

\* C19: a key handled by input_special leaves the lines as they were, a key
\* other than Up, Down, Left, Right also the cursor; a character handled by
\* input_char changes the number of lines by at most one.
C19_NavigationDoesNotEdit ==
  /\ last \in {"Up", "Down", "Left", "Right", "Other"} => text = prev.text
  /\ last = "Other" => (~aborted /\ cursor = prev.cursor)
  /\ last \in {Backspace, Enter} \cup Chars =>
       /\ Len(text) <= Len(prev.text) + 1
       /\ Len(prev.text) <= Len(text) + 1

\* another key has been handled with the cursor away from (0, 0), and a
\* navigation key has moved the cursor over a buffer of several lines
C19_Witness ==
  \/ /\ last = "Other" /\ cursor.row > 0 /\ cursor.column > 0
  \/ /\ last \in {"Up", "Down", "Left", "Right"} /\ ~aborted
     /\ Len(text) >= 2 /\ cursor # prev.cursor

\* the widest line of the buffer, as line_length measures lines
WidestLine(txt) ==
  IF txt = <<>> THEN 0
  ELSE LET widths == {line_length(txt[i]) : i \in 1..Len(txt)}
       IN  CHOOSE w \in widths : \A v \in widths : v <= w

\* C20: the stored max_line_length is the largest line_length over the
\* lines of the buffer (0 when all lines are empty).
C20_MaxLineLengthFresh == max_line_length = WidestLine(text)

\* a Backspace has shortened or merged the widest line, and a line break
\* has split it
C20_Witness ==
  /\ ~aborted
  /\ \/ /\ last = Backspace
        /\ WidestLine(prev.text) # WidestLine(text)
     \/ /\ last = Enter
        /\ WidestLine(text) < WidestLine(prev.text)

\* the number of line feeds of src
LineFeeds(src) == Cardinality({i \in 1..Len(src) : src[i] = LF})

\* what C14 says of the lines built from the source src
AtLeastOneLine(src, split_text) ==
  /\ Len(split_text) >= 1
  /\ src = <<>> => split_text = <<<<>>>>
  /\ ends_with_lf(src) =>
       /\ split_text[Len(split_text)] = <<>>
       /\ Len(split_text) = LineFeeds(src) + 1

\* C14: a buffer built by TextArea::_new with multiline set, or by
\* CodeView::new, has at least one line: the empty source gives exactly one
\* empty line, and a source that ends in a line feed gets exactly one empty
\* line after the lines its line feeds end.
C14_NeverZeroLines ==
  /\ (last = "new" /\ args.multiline) =>
       AtLeastOneLine(args.source, text)
  /\ cv_last = "new" =>
       AtLeastOneLine(args.source, code_view.text)

\* C16: for a CodeView of at least one line, fewer than three included,
\* scroll_offset.y is never positive and never below
\* -(line_count - 3) * font_height (0 when the buffer has fewer than three
\* lines), whatever scroll events were handled.
C16_ScrollWithinBounds ==
  (cv_last # "none" /\ Len(code_view.text) >= 1) =>
    /\ code_view.scroll_offset.y <= 0
    /\ code_view.scroll_offset.y
         >= -(Max(Len(code_view.text) - VisibleRows, 0) * FontHeight)

\* C17: the CodeView starts with cursor_row within a buffer of at least one
\* line, and Up, Down, Left or Right handled with cursor_row within the
\* buffer neither indexes text out of range nor leaves cursor_row at or
\* past text.len().
C17_RowSafety ==
  /\ (cv_last = "new" /\ Len(code_view.text) >= 1) =>
       code_view.cursor_row < Len(code_view.text)
  /\ (/\ cv_last \in {"Up", "Down", "Left", "Right"}
      /\ cv_prev.cursor_row < Len(cv_prev.text)) =>
       /\ ~cv_aborted
       /\ code_view.cursor_row < Len(code_view.text)

\* C18: Back with the cursor at column 0 of a line of the buffer does not
\* panic; at (0, 0) it leaves the buffer and the cursor as they were; at
\* (row, 0) with row > 0 it appends line[row] to line[row - 1], removes
\* line row and puts the cursor at the former end of line[row - 1].
C18_BackAtColumnZero ==
  (/\ cv_last = "Back" /\ cv_prev.cursor_column = 0
   /\ cv_prev.cursor_row < Len(cv_prev.text)) =>
    LET row == cv_prev.cursor_row
    IN  /\ ~cv_aborted
        /\ IF row = 0
           THEN /\ code_view.text = cv_prev.text
                /\ code_view.cursor_row = 0
                /\ code_view.cursor_column = 0
                /\ code_view.cursor_x_offset = cv_prev.cursor_x_offset
           ELSE /\ code_view.text
                     = SubSeq(cv_prev.text, 1, row - 1)
                         \o <<cv_prev.text[row] \o cv_prev.text[row + 1]>>
                         \o SubSeq(cv_prev.text, row + 2, Len(cv_prev.text))
                /\ code_view.cursor_row = row - 1
                /\ code_view.cursor_column = Len(cv_prev.text[row])

=============================================================================
